---------------------------- MODULE Spec2Model ----------------------------
(***************************************************************************)
(* Model of hippylib/scheduling: the collectives of collective.py          *)
(* (NullCollective, MultipleSamePartitioningPDEsCollective) and the        *)
(* communicator utilities of comm_utils.py (splitCommunicators,            *)
(* checkFunctionSpaceConsistentPartitioning).                              *)
(*                                                                         *)
(* Conventions.                                                            *)
(*  - A Python object is a record [type, val, data, csize, ent]: its type  *)
(*    name, its scalar value, its numeric contents (numpy array, or the    *)
(*    local segment of a dolfin.Vector), the size of the vector's own      *)
(*    mpi_comm, and the entries of a multi-vector.                         *)
(*  - A float is an exact rational <<num, den>> (den > 0, lowest terms);   *)
(*    an int is <<n, 1>>.  Floating point rounding is not modelled.        *)
(*  - A call returns a record [exc, msg, ret, same, arg, log]: the         *)
(*    exception raised ("" for none) and its message, the value returned,  *)
(*    whether the value returned is the very object passed in, the         *)
(*    contents of the caller's object after the call, and the transport    *)
(*    and vector-method events of the call, in order.                      *)
(*  - numpy is the numpy of the code's time, where np.int is int.          *)
(***************************************************************************)
EXTENDS Integers, Sequences, FiniteSets, TLC

VARIABLES
    comm_size,        \* self.comm.Get_size() of the collective group
    is_serial_check,  \* self.is_serial_check
    v,                \* v[i]: the payload object process i holds
    v0,               \* v0[i]: the contents of v[i] when the call was made
    fn,               \* the method the group called ("none" before the call)
    op_arg,           \* its op argument
    root_arg,         \* its root argument
    out,              \* out[i]: what the call did on process i
    grid,             \* splitCommunicators: the flat group and the arguments
    split,            \* split[r]: what splitCommunicators did on flat rank r
    chk,              \* the consistency check: the grid and the partitions
    chk_pc,           \* chk_pc[r]: the line flat rank r is at
    chk_out           \* chk_out[r]: what the check returned or raised on r

vars == <<comm_size, is_serial_check, v, v0, fn, op_arg, root_arg, out,
          grid, split, chk, chk_pc, chk_out>>

collVars == <<comm_size, is_serial_check, v, v0, fn, op_arg, root_arg, out>>
splitVars == <<grid, split>>
chkVars == <<chk, chk_pc, chk_out>>

-----------------------------------------------------------------------------
(* Bounds of the model *)

MaxN == 3
MaxVal == 1
MaxLen == 2
MaxNvec == 2
MaxWorld == 6

(* np.int32 / MPI.INT: the largest value of the wire type of an int *)
INT32_MAX == 2147483647

INT32_MIN == (-INT32_MAX) - 1

-----------------------------------------------------------------------------
(* Exact rationals *)

RECURSIVE Gcd(_, _)
Gcd(a, b) == IF b = 0 THEN a ELSE Gcd(b, a % b)

Abs(n) == IF n < 0 THEN -n ELSE n

Norm(n, d) ==
    LET g == Gcd(Abs(n), d) IN <<n \div g, d \div g>>

Zero == <<0, 1>>

FromInt(n) == <<n, 1>>

RAdd(x, y) == Norm(x[1] * y[2] + y[1] * x[2], x[2] * y[2])

RDivInt(x, n) == Norm(x[1], x[2] * n)

-----------------------------------------------------------------------------
(* Python objects *)

Obj(t, val, data, csize, ent) ==
    [type |-> t, val |-> val, data |-> data, csize |-> csize, ent |-> ent]

NoneV == Obj("NoneType", Zero, <<>>, 0, <<>>)

PyFloat(x) == Obj("float", x, <<>>, 0, <<>>)

NpFloat64(x) == Obj("numpy.float64", x, <<>>, 0, <<>>)

PyInt(n) == Obj("int", FromInt(n), <<>>, 0, <<>>)

NpInt32(n) == Obj("numpy.int32", FromInt(n), <<>>, 0, <<>>)

NdArray(data) == Obj("numpy.ndarray", Zero, data, 0, <<>>)

Vector(data, csize) == Obj("dolfin.Vector", Zero, data, csize, <<>>)

MultiVector(ent) == Obj("MultiVector", Zero, <<>>, 0, ent)

PyStr == Obj("str", Zero, <<>>, 0, <<>>)

(* v.set_local(x) / v[:] = x: the object with its contents replaced *)
WithData(o, data) == [o EXCEPT !.data = data]

WithEnt(o, ent) == [o EXCEPT !.ent = ent]

(* type(v) in [float, np.float64] *)
IsFloat(o) == o.type \in {"float", "numpy.float64"}

(* type(v) in [int, np.int, np.int32] *)
IsInt(o) == o.type \in {"int", "numpy.int32"}

(* (type(v) is np.array) or (type(v) is np.ndarray) *)
IsArray(o) == o.type = "numpy.ndarray"

(* hasattr(v, "mpi_comm") and hasattr(v, "get_local") *)
IsVector(o) == o.type = "dolfin.Vector"

(* hasattr(v, 'nvec') *)
HasNvec(o) == o.type = "MultiVector"

-----------------------------------------------------------------------------
(* str.lower(): an op is a sequence of characters *)

UpperCase == <<"A", "B", "C", "D", "E", "F", "G", "H", "I", "J", "K", "L", "M",
               "N", "O", "P", "Q", "R", "S", "T", "U", "V", "W", "X", "Y", "Z">>

LowerCase == <<"a", "b", "c", "d", "e", "f", "g", "h", "i", "j", "k", "l", "m",
               "n", "o", "p", "q", "r", "s", "t", "u", "v", "w", "x", "y", "z">>

LowerChar(c) ==
    IF \E k \in 1..Len(UpperCase) : UpperCase[k] = c
    THEN LowerCase[CHOOSE k \in 1..Len(UpperCase) : UpperCase[k] = c]
    ELSE c

LowerAsGiven(s) == s

Lower(s) == [k \in 1..Len(s) |-> LowerChar(s[k])]

SUM == <<"s", "u", "m">>

AVG == <<"a", "v", "g">>

-----------------------------------------------------------------------------
(* The transport: mpi4py on a group of processes 0 .. n-1 *)

Procs(n) == 0..(n - 1)

(* MPI.SUM on MPI.INT: the machine's 32 bit add, which wraps around in
   two's complement.  (C leaves the overflow of a signed add undefined;
   whatever it gives is an np.int32, which the exact sum, lying outside the
   range, is not.) *)
Wrap32Add(a, b) ==
    IF a >= 0 /\ b >= 0 /\ a > INT32_MAX - b
    THEN (a - INT32_MAX - 1) + (b - INT32_MAX - 1)
    ELSE IF a < 0 /\ b < 0 /\ a < INT32_MIN - b
    THEN (a + INT32_MAX + 1) + (b + INT32_MAX + 1)
    ELSE a + b

RECURSIVE SumDouble(_, _, _)
SumDouble(sends, n, k) ==
    IF n = 0 THEN Zero ELSE RAdd(SumDouble(sends, n - 1, k), sends[n - 1][k])

RECURSIVE SumInt(_, _, _)
SumInt(sends, n, k) ==
    IF n = 0 THEN 0
    ELSE Wrap32Add(SumInt(sends, n - 1, k), sends[n - 1][k][1])

(* comm.Allreduce([send, MPI.DOUBLE], [receive, MPI.DOUBLE], op = MPI.SUM):
   sends[j] is the send buffer of process j; every process receives the sum *)
AllreduceDouble(sends) ==
    LET n == Cardinality(DOMAIN sends)
    IN [k \in 1..Len(sends[0]) |-> SumDouble(sends, n, k)]

(* comm.Allreduce([send, MPI.INT], [receive, MPI.INT], op = MPI.SUM) *)
AllreduceInt(sends) ==
    LET n == Cardinality(DOMAIN sends)
    IN [k \in 1..Len(sends[0]) |-> FromInt(SumInt(sends, n, k))]

(* comm.bcast(obj, root = root): every process receives root's object *)
CommBcast(objs, root) == objs[root]


-----------------------------------------------------------------------------
(* What a call did *)

NoMsg == [text |-> "", op |-> <<>>, type |-> ""]

Ret(ret, same, arg, log) ==
    [exc |-> "", msg |-> NoMsg, ret |-> ret, same |-> same, arg |-> arg,
     log |-> log]

Raise(exc, msg, arg, log) ==
    [exc |-> exc, msg |-> msg, ret |-> NoneV, same |-> FALSE, arg |-> arg,
     log |-> log]

NoCall == Raise("", NoMsg, NoneV, <<>>)

-----------------------------------------------------------------------------
(* NullCollective *)

NullSize == 1

NullRank == 0

(* The message of line 36 is formatted with op as given *)
NullAllReduce(o, op) ==
    IF Lower(op) \notin {SUM, AVG}
    THEN Raise("NotImplementedError",
               [text |-> "Unknown operation *{0}* in NullCollective.allReduce",
                op |-> op, type |-> ""], o, <<>>)
    ELSE Ret(o, TRUE, o, <<>>)

NullBcast(o, root) == Ret(o, TRUE, o, <<>>)

-----------------------------------------------------------------------------
(* MultipleSamePartitioningPDEsCollective.allReduce, on process i of a group
   whose processes hold vs[0] .. vs[comm_size - 1] and all make the call.
   op is the lowered op of line 71. *)

(* err_msg of line 72 *)
ErrMsg(op) ==
    [text |-> "Unknown operation *{0}* in MultipleSerialPDEsCollective.allReduce",
     op |-> op, type |-> ""]

(* lines 74-83 *)
AllReduceFloat(i, vs, op) ==
    LET receive == AllreduceDouble([j \in DOMAIN vs |-> <<vs[j].val>>])
        log == <<"Allreduce">>
    IN IF op = SUM THEN Ret(NpFloat64(receive[1]), FALSE, vs[i], log)
       ELSE IF op = AVG
       THEN Ret(NpFloat64(RDivInt(receive[1], comm_size)), FALSE, vs[i], log)
       ELSE Raise("NotImplementedError", ErrMsg(op), vs[i], log)

(* lines 85-94; receive[0]//self.size() is floor division *)
AllReduceInt(i, vs, op) ==
    LET receive == AllreduceInt([j \in DOMAIN vs |-> <<vs[j].val>>])
        log == <<"Allreduce">>
    IN IF op = SUM THEN Ret(NpInt32(receive[1][1]), FALSE, vs[i], log)
       ELSE IF op = AVG
       THEN Ret(NpInt32(receive[1][1] \div comm_size), FALSE, vs[i], log)
       ELSE Raise("NotImplementedError", ErrMsg(op), vs[i], log)

(* lines 96-106; line 102 compares (==) and assigns nothing *)
AllReduceArray(i, vs, op) ==
    LET receive == AllreduceDouble([j \in DOMAIN vs |-> vs[j].data])
        log == <<"Allreduce">>
    IN IF op = SUM
       THEN LET w == WithData(vs[i], receive) IN Ret(w, TRUE, w, log)
       ELSE IF op = AVG THEN Ret(vs[i], TRUE, vs[i], log)
       ELSE Raise("NotImplementedError", ErrMsg(op), vs[i], log)

AllReduceVectorAvgUnscaled(i, vs, op) ==
    IF is_serial_check /\ vs[i].csize # 1
    THEN Raise("AssertionError", NoMsg, vs[i], <<"mpi_comm">>)
    ELSE
    LET pre == IF is_serial_check THEN <<"mpi_comm">> ELSE <<>>
        sum == AllreduceDouble([j \in DOMAIN vs |-> vs[j].data])
        log == pre \o <<"get_local", "Allreduce">>
    IN IF op \notin {SUM, AVG}
       THEN Raise("NotImplementedError", ErrMsg(op), vs[i], log)
       ELSE LET w == WithData(vs[i], sum)
            IN Ret(w, TRUE, w, log \o <<"set_local", "apply">>)

(* lines 108-127 *)
AllReduceVector(i, vs, op) ==
    IF is_serial_check /\ vs[i].csize # 1
    THEN Raise("AssertionError", NoMsg, vs[i], <<"mpi_comm">>)
    ELSE
    LET pre == IF is_serial_check THEN <<"mpi_comm">> ELSE <<>>
        sum == AllreduceDouble([j \in DOMAIN vs |-> vs[j].data])
        log == pre \o <<"get_local", "Allreduce">>
    IN IF op \notin {SUM, AVG}
       THEN Raise("NotImplementedError", ErrMsg(op), vs[i], log)
       ELSE LET receive == IF op = SUM THEN sum
                           ELSE [k \in 1..Len(sum) |-> RDivInt(sum[k], comm_size)]
                w == WithData(vs[i], receive)
            IN Ret(w, TRUE, w, log \o <<"set_local", "apply">>)

(* lines 132-137: the bare name is_serial_check is no local, argument or
   module global, so evaluating line 133 raises NameError *)
AllReduceOther(i, vs, op) ==
    Raise("NameError",
          [text |-> "name 'is_serial_check' is not defined", op |-> <<>>,
           type |-> ""], vs[i], <<>>)

RECURSIVE GridAllReduce(_, _, _)
RECURSIVE AllReduceLoop(_, _, _, _, _, _)

AllReduceLoopFirstOnly(i, vs, op, k, cur, log) ==
    IF k > Len(cur.ent) THEN Ret(cur, TRUE, cur, log)
    ELSE LET r == GridAllReduce(i, [j \in DOMAIN vs |-> vs[j].ent[k]], op)
             nxt == WithEnt(cur, [cur.ent EXCEPT ![k] = r.arg])
         IN IF r.exc # "" THEN Raise(r.exc, r.msg, nxt, log \o r.log)
            ELSE Ret(nxt, TRUE, nxt, log \o r.log)

(* lines 128-131: for i in range(v.nvec()): self.allReduce(v[i], op), from
   entry k on; cur is the container so far; what the inner calls return is
   dropped *)
AllReduceLoop(i, vs, op, k, cur, log) ==
    IF k > Len(cur.ent) THEN Ret(cur, TRUE, cur, log)
    ELSE LET r == GridAllReduce(i, [j \in DOMAIN vs |-> vs[j].ent[k]], op)
             nxt == WithEnt(cur, [cur.ent EXCEPT ![k] = r.arg])
         IN IF r.exc # "" THEN Raise(r.exc, r.msg, nxt, log \o r.log)
            ELSE AllReduceLoop(i, vs, op, k + 1, nxt, log \o r.log)

(* lines 63-137 *)
GridAllReduce(i, vs, op_in) ==
    LET op == Lower(op_in)
    IN IF IsFloat(vs[i]) THEN AllReduceFloat(i, vs, op)
       ELSE IF IsInt(vs[i]) THEN AllReduceInt(i, vs, op)
       ELSE IF IsArray(vs[i]) THEN AllReduceArray(i, vs, op)
       ELSE IF IsVector(vs[i]) THEN AllReduceVector(i, vs, op)
       ELSE IF HasNvec(vs[i]) THEN AllReduceLoop(i, vs, op, 1, vs[i], <<>>)
       ELSE AllReduceOther(i, vs, op)

-----------------------------------------------------------------------------
(* MultipleSamePartitioningPDEsCollective.bcast, on process i *)

BcastValueRootZero(i, vs, root) ==
    Ret(CommBcast(vs, 0), i = 0, vs[i], <<"bcast">>)

(* lines 149-150: comm.bcast returns root's object; on root that is the
   object passed in *)
BcastValue(i, vs, root) ==
    Ret(CommBcast(vs, root), i = root, vs[i], <<"bcast">>)

(* lines 152-164 *)
BcastVector(i, vs, root) ==
    IF is_serial_check /\ vs[i].csize # 1
    THEN Raise("AssertionError", NoMsg, vs[i], <<"mpi_comm">>)
    ELSE
    LET pre == IF is_serial_check THEN <<"mpi_comm">> ELSE <<>>
        v_local == CommBcast([j \in DOMAIN vs |-> vs[j].data], root)
        w == WithData(vs[i], v_local)
    IN Ret(w, TRUE, w, pre \o <<"get_local", "bcast", "set_local", "apply">>)

(* lines 170-175: as lines 132-137 *)
BcastOther(i, vs, root) ==
    Raise("NameError",
          [text |-> "name 'is_serial_check' is not defined", op |-> <<>>,
           type |-> ""], vs[i], <<>>)

RECURSIVE GridBcast(_, _, _)
RECURSIVE BcastLoop(_, _, _, _, _, _)

(* lines 165-168: what the inner calls return is dropped *)
BcastLoop(i, vs, root, k, cur, log) ==
    IF k > Len(cur.ent) THEN Ret(cur, TRUE, cur, log)
    ELSE LET r == GridBcast(i, [j \in DOMAIN vs |-> vs[j].ent[k]], root)
             nxt == WithEnt(cur, [cur.ent EXCEPT ![k] = r.arg])
         IN IF r.exc # "" THEN Raise(r.exc, r.msg, nxt, log \o r.log)
            ELSE BcastLoop(i, vs, root, k + 1, nxt, log \o r.log)

(* lines 139-175 *)
GridBcast(i, vs, root) ==
    IF IsFloat(vs[i]) \/ IsInt(vs[i]) \/ IsArray(vs[i])
    THEN BcastValue(i, vs, root)
    ELSE IF IsVector(vs[i]) THEN BcastVector(i, vs, root)
    ELSE IF HasNvec(vs[i]) THEN BcastLoop(i, vs, root, 1, vs[i], <<>>)
    ELSE BcastOther(i, vs, root)

-----------------------------------------------------------------------------
(* The payloads the processes of a group hold.  All hold the same kind and
   shape (a collective call needs matching arguments); the numbers differ
   from process to process: those of process i start at i + seed[i]. *)

Kinds == {"float", "int", "bigint", "array", "vector", "str"}

(* A payload of one kind whose numbers start at seed.  An int is within the
   range of np.int32; "bigint" is an int near its upper end. *)
Leaf(kind, seed, len, csize) ==
    LET data == [k \in 1..len |-> FromInt(seed + k - 1)]
    IN CASE kind = "float"  -> PyFloat(FromInt(seed))
         [] kind = "int"    -> PyInt(seed)
         [] kind = "bigint" -> PyInt(INT32_MAX - seed)
         [] kind = "array"  -> NdArray(data)
         [] kind = "vector" -> Vector(data, csize)
         [] OTHER           -> PyStr

(* nest = <<>>: the payload itself; nest = <<n>> \o rest: a multi-vector of
   n entries of nesting rest, entry k starting at seed + k - 1 *)
RECURSIVE Build(_, _, _, _, _)
Build(nest, kind, seed, len, csize) ==
    IF nest = <<>> THEN Leaf(kind, seed, len, csize)
    ELSE MultiVector([k \in 1..Head(nest) |->
                        Build(Tail(nest), kind, seed + k - 1, len, csize)])

Nests == {<<>>} \cup {<<n>> : n \in 0..MaxNvec} \cup {<<1, m>> : m \in 0..1}

Seeds(n) == [Procs(n) -> 0..MaxVal]

Payloads(n) ==
    {[i \in Procs(n) |-> Build(nest, kind, i + seed[i], len, csize)] :
        nest \in Nests, kind \in Kinds, seed \in Seeds(n),
        len \in 1..MaxLen, csize \in 1..2}

Ops == {SUM, <<"S", "u", "m">>, <<"S", "U", "M">>, AVG, <<"A", "v", "g">>,
        <<"m", "a", "x">>, <<>>}

-----------------------------------------------------------------------------
(* The collectives: a group of comm_size processes, each holding a payload,
   makes one collective call *)

NoSplit == [r \in {} |-> 0]

IdleSplit == grid = [world_size |-> 0, n_subdomain |-> 0, n_instances |-> 0]
             /\ split = NoSplit

IdleChk == chk = [n_subdomain |-> 0, n_instances |-> 0, api |-> "",
                  odd |-> -1]
           /\ chk_pc = NoSplit /\ chk_out = NoSplit

Init ==
    /\ comm_size \in 1..MaxN
    /\ is_serial_check \in BOOLEAN
    /\ v \in Payloads(comm_size)
    /\ v0 = v
    /\ fn = "none"
    /\ op_arg = <<>>
    /\ root_arg = 0
    /\ out = [i \in Procs(comm_size) |-> NoCall]
    /\ IdleSplit
    /\ IdleChk

(* every process of the group calls collective.allReduce(v, op) *)
AllReduce ==
    /\ fn = "none"
    /\ \E op \in Ops :
        /\ op_arg' = op
        /\ out' = [i \in Procs(comm_size) |-> GridAllReduce(i, v, op)]
    /\ fn' = "allReduce"
    /\ v' = [i \in Procs(comm_size) |-> out'[i].arg]
    /\ UNCHANGED <<comm_size, is_serial_check, v0, root_arg>>
    /\ UNCHANGED <<splitVars, chkVars>>

(* every process of the group calls collective.bcast(v, root) *)
Bcast ==
    /\ fn = "none"
    /\ \E root \in Procs(comm_size) :
        /\ root_arg' = root
        /\ out' = [i \in Procs(comm_size) |-> GridBcast(i, v, root)]
    /\ fn' = "bcast"
    /\ v' = [i \in Procs(comm_size) |-> out'[i].arg]
    /\ UNCHANGED <<comm_size, is_serial_check, v0, op_arg>>
    /\ UNCHANGED <<splitVars, chkVars>>

(* a single process calls NullCollective().allReduce(v, op) *)
NullAllReduceCall ==
    /\ fn = "none"
    /\ comm_size = NullSize
    /\ \E op \in Ops :
        /\ op_arg' = op
        /\ out' = [i \in Procs(comm_size) |-> NullAllReduce(v[i], op)]
    /\ fn' = "null.allReduce"
    /\ v' = [i \in Procs(comm_size) |-> out'[i].arg]
    /\ UNCHANGED <<comm_size, is_serial_check, v0, root_arg>>
    /\ UNCHANGED <<splitVars, chkVars>>

(* a single process calls NullCollective().bcast(v, root) *)
NullBcastCall ==
    /\ fn = "none"
    /\ comm_size = NullSize
    /\ \E root \in Procs(MaxN) :
        /\ root_arg' = root
        /\ out' = [i \in Procs(comm_size) |-> NullBcast(v[i], root)]
    /\ fn' = "null.bcast"
    /\ v' = [i \in Procs(comm_size) |-> out'[i].arg]
    /\ UNCHANGED <<comm_size, is_serial_check, v0, op_arg>>
    /\ UNCHANGED <<splitVars, chkVars>>

Next == AllReduce \/ Bcast \/ NullAllReduceCall \/ NullBcastCall

Spec == Init /\ [][Next]_vars

-----------------------------------------------------------------------------
(* splitCommunicators(comm_world, n_subdomain, n_instances), called by every
   rank of the flat group.  split[r].pc is where rank r is:
     "start"   not called yet
     "raised"  the assert of line 24 failed
     "mesh"    in comm_world.Split of line 31, with (color, key) handed over
     "coll"    in comm_world.Split of line 32
     "done"    returned
   Split is collective: it returns once every rank of comm_world is in it. *)

Ranks == DOMAIN split

(* line 29: np.floor(mpi_rank/n_instances) *)
Color(rank, n_instances) == rank \div n_instances

(* line 30: np.remainder(mpi_rank, n_instances) *)
Key(rank, n_instances) == rank % n_instances

IdleColl ==
    /\ comm_size = 0 /\ is_serial_check = FALSE
    /\ v = NoSplit /\ v0 = NoSplit /\ out = NoSplit
    /\ fn = "none" /\ op_arg = <<>> /\ root_arg = 0

InitSplit ==
    /\ grid \in [world_size : 1..MaxWorld, n_subdomain : 1..MaxWorld,
                 n_instances : 1..MaxWorld]
    /\ split = [r \in Procs(grid.world_size) |->
                  [pc |-> "start", color |-> 0, key |-> 0]]
    /\ IdleColl
    /\ IdleChk

(* lines 22-24, failing *)
SplitAssertFails(r) ==
    /\ split[r].pc = "start"
    /\ grid.world_size # grid.n_subdomain * grid.n_instances
    /\ split' = [split EXCEPT ![r].pc = "raised"]
    /\ UNCHANGED <<grid, collVars, chkVars>>

(* lines 22-31: into the first Split *)
SplitEnterMesh(r) ==
    /\ split[r].pc = "start"
    /\ grid.world_size = grid.n_subdomain * grid.n_instances
    /\ split' = [split EXCEPT ![r] =
                    [pc |-> "mesh", color |-> Color(r, grid.n_instances),
                     key |-> Key(r, grid.n_instances)]]
    /\ UNCHANGED <<grid, collVars, chkVars>>

(* lines 31-32: out of the first Split, into the second *)
SplitEnterColl(r) ==
    /\ split[r].pc = "mesh"
    /\ \A q \in Ranks : split[q].pc \in {"mesh", "coll", "done"}
    /\ split' = [split EXCEPT ![r].pc = "coll"]
    /\ UNCHANGED <<grid, collVars, chkVars>>

(* lines 32-33: out of the second Split *)
SplitReturn(r) ==
    /\ split[r].pc = "coll"
    /\ \A q \in Ranks : split[q].pc \in {"coll", "done"}
    /\ split' = [split EXCEPT ![r].pc = "done"]
    /\ UNCHANGED <<grid, collVars, chkVars>>

NextSplit ==
    \/ \E r \in Ranks : SplitAssertFails(r)
    \/ \E r \in Ranks : SplitEnterMesh(r)
    \/ \E r \in Ranks : SplitEnterColl(r)
    \/ \E r \in Ranks : SplitReturn(r)

SpecSplit == InitSplit /\ [][NextSplit]_vars

(* MPI_Comm_split: the new communicator of a rank holds the ranks that gave
   the same color, ordered by key and then by old rank *)
CommOf(r, colorOf, keyOf) ==
    LET members == {q \in Ranks : colorOf[q] = colorOf[r]}
        Before(a, b) == keyOf[a] < keyOf[b] \/ (keyOf[a] = keyOf[b] /\ a < b)
    IN [members |-> members,
        rank |-> Cardinality({q \in members : Before(q, r)})]

(* line 31: comm_world.Split(color = color, key = key) *)
MeshConstructorComm(r) ==
    CommOf(r, [q \in Ranks |-> split[q].color], [q \in Ranks |-> split[q].key])

(* line 32: comm_world.Split(color = key, key = color) *)
CollectiveComm(r) ==
    CommOf(r, [q \in Ranks |-> split[q].key], [q \in Ranks |-> split[q].color])

-----------------------------------------------------------------------------
(* checkFunctionSpaceConsistentPartitioning(Vh, collective), called by every
   rank of a flat group of n_subdomain * n_instances ranks laid out as
   splitCommunicators lays them out.
     chk.api  what the caller hands over as collective: "Collective", an
              object of collective.py, whose rank is a method; or "comm",
              the mpi4py communicator itself, whose rank is an int
     chk.odd  the ensemble instance whose mesh decomposition differs from
              the others' (-1: none does)
   chk_pc[r] is the line rank r is at, "end" once the call is over;
   chk_out[r] is "True" or "False" returned, or the exception raised. *)

ChkRanks == DOMAIN chk_pc

(* the rank of r in its collective communicator: CollectiveComm orders the
   ranks of one key by color *)
ChkCollectiveRank(r) == Color(r, chk.n_instances)

ChkInstance(r) == Key(r, chk.n_instances)

InitCheck ==
    /\ \E ns \in 1..MaxWorld, ni \in 1..MaxWorld :
        /\ ns * ni <= MaxWorld
        /\ chk \in [n_subdomain : {ns}, n_instances : {ni},
                    api : {"Collective", "comm"}, odd : (-1)..(ni - 1)]
        /\ chk_pc = [r \in Procs(ns * ni) |-> "l37"]
        /\ chk_out = [r \in Procs(ns * ni) |-> "pending"]
    /\ IdleColl
    /\ IdleSplit

(* line 37 with a Collective: float(collective.rank) is float() of a bound
   method *)
ChkLine37TypeError(r) ==
    /\ chk_pc[r] = "l37"
    /\ chk.api = "Collective"
    /\ chk_pc' = [chk_pc EXCEPT ![r] = "end"]
    /\ chk_out' = [chk_out EXCEPT ![r] = "TypeError"]
    /\ UNCHANGED <<chk, collVars, splitVars>>

(* line 37 with a communicator *)
ChkLine37(r) ==
    /\ chk_pc[r] = "l37"
    /\ chk.api = "comm"
    /\ chk_pc' = [chk_pc EXCEPT ![r] = "l38"]
    /\ UNCHANGED <<chk, chk_out, collVars, splitVars>>

(* lines 38-39 on rank 0 of the collective: mesh is no name of the function
   or of the module *)
ChkLine39NameError(r) ==
    /\ chk_pc[r] = "l38"
    /\ ChkCollectiveRank(r) = 0
    /\ chk_pc' = [chk_pc EXCEPT ![r] = "end"]
    /\ chk_out' = [chk_out EXCEPT ![r] = "NameError"]
    /\ UNCHANGED <<chk, collVars, splitVars>>

(* lines 38, 40-42 elsewhere: into collective.bcast(..., root = 0), which
   waits for rank 0 of the collective; rank 0 never gets there *)
ChkLine41(r) ==
    /\ chk_pc[r] = "l38"
    /\ ChkCollectiveRank(r) # 0
    /\ chk_pc' = [chk_pc EXCEPT ![r] = "l42"]
    /\ UNCHANGED <<chk, chk_out, collVars, splitVars>>

NextCheck ==
    \/ \E r \in ChkRanks : ChkLine37TypeError(r)
    \/ \E r \in ChkRanks : ChkLine37(r)
    \/ \E r \in ChkRanks : ChkLine39NameError(r)
    \/ \E r \in ChkRanks : ChkLine41(r)

SpecCheck == InitCheck /\ [][NextCheck]_vars

-----------------------------------------------------------------------------
(* What the claims speak of *)

P == Procs(comm_size)

(* the value of an object, whatever its type *)
RECURSIVE Value(_)
Value(o) == [val |-> o.val, data |-> o.data,
             ent |-> [k \in 1..Len(o.ent) |-> Value(o.ent[k])]]

(* the types of the scalars, buffers and vectors an object is made of *)
RECURSIVE LeafTypes(_)
LeafTypes(o) ==
    IF HasNvec(o)
    THEN UNION {LeafTypes(o.ent[k]) : k \in 1..Len(o.ent)}
    ELSE {o.type}

(* a scalar, a dense buffer, a distributed field vector, or a multi-vector
   of these *)
Supported(o) == "str" \notin LeafTypes(o)

(* the serial check, where it is on, finds every vector of o serial *)
RECURSIVE SerialOk(_)
SerialOk(o) ==
    IF HasNvec(o) THEN \A k \in 1..Len(o.ent) : SerialOk(o.ent[k])
    ELSE is_serial_check /\ IsVector(o) => o.csize = 1

(* the exact sum of xs[0] .. xs[n-1] *)
RECURSIVE ExactSum(_, _)
ExactSum(xs, n) == IF n = 0 THEN Zero ELSE RAdd(ExactSum(xs, n - 1), xs[n - 1])

(* the exact sum of the non-negative ints xs[0] .. xs[n-1] is an np.int32 *)
RECURSIVE FitsInt32(_, _)
FitsInt32(xs, n) ==
    n = 0 \/ (FitsInt32(xs, n - 1)
              /\ ExactSum(xs, n - 1)[1] <= INT32_MAX - xs[n - 1][1])

ScalarsHeld == [j \in P |-> v0[j].val]

ElementsHeld(k) == [j \in P |-> v0[j].data[k]]

(* x is the exact sum of the floats xs *)
FloatSumIs(x, xs) == x = ExactSum(xs, comm_size)

(* x, an np.int32, is the exact sum of the ints xs: the sum is within the
   range of np.int32 and x is it *)
IntSumIs(x, xs) == FitsInt32(xs, comm_size) /\ x = ExactSum(xs, comm_size)

(* op is word in some letter case *)
AnyCase(op, word) ==
    /\ Len(op) = Len(word)
    /\ \A k \in 1..Len(op) :
          \/ op[k] = word[k]
          \/ \E m \in 1..Len(LowerCase) :
                LowerCase[m] = word[k] /\ UpperCase[m] = op[k]

SumCalled == fn = "allReduce" /\ AnyCase(op_arg, SUM)

AvgCalled == fn = "allReduce" /\ AnyCase(op_arg, AVG)

(* N*(N-1)/2 *)
Triangle == (comm_size * (comm_size - 1)) \div 2

-----------------------------------------------------------------------------
MeshGroups == {MeshConstructorComm(r).members : r \in Ranks}

CollectiveGroups == {CollectiveComm(r).members : r \in Ranks}

IsPartition(groups) ==
    /\ UNION groups = Ranks
    /\ \A g, h \in groups : g = h \/ g \cap h = {}

AllSplit == \A r \in Ranks : split[r].pc = "done"

(* C1 as claimed: once every rank has returned from splitCommunicators, the
   mesh communicators partition the flat ranks into n_instances groups of
   n_subdomain ranks each, and the collective communicators partition them
   into n_subdomain groups of n_instances ranks each. *)
C1_AsClaimed ==
    AllSplit =>
        /\ IsPartition(MeshGroups)
        /\ Cardinality(MeshGroups) = grid.n_instances
        /\ \A g \in MeshGroups : Cardinality(g) = grid.n_subdomain
        /\ IsPartition(CollectiveGroups)
        /\ Cardinality(CollectiveGroups) = grid.n_subdomain
        /\ \A g \in CollectiveGroups : Cardinality(g) = grid.n_instances

-----------------------------------------------------------------------------
(* C2 as claimed: after allReduce(v, "sum"), in any letter case, on real
   scalars, integer scalars or dense buffers, every process obtains the
   exact elementwise sum of the values the N processes held. *)
C2_AsClaimed ==
    SumCalled =>
        \A i \in P :
            /\ IsFloat(v0[i]) =>
                out[i].exc = "" /\ FloatSumIs(out[i].ret.val, ScalarsHeld)
            /\ IsInt(v0[i]) =>
                out[i].exc = "" /\ IntSumIs(out[i].ret.val, ScalarsHeld)
            /\ IsArray(v0[i]) =>
                /\ out[i].exc = ""
                /\ Len(out[i].ret.data) = Len(v0[i].data)
                /\ \A k \in 1..Len(v0[i].data) :
                      FloatSumIs(out[i].ret.data[k], ElementsHeld(k))

(* C2, amended: as claimed for real scalars and dense buffers; for integer
   scalars, whenever the exact sum is within the range of np.int32 (the
   type the code sends ints as).  Where process i holds i the result is
   N*(N-1)/2. *)
C2_Sum ==
    SumCalled =>
        \A i \in P :
            /\ IsFloat(v0[i]) =>
                out[i].exc = "" /\ FloatSumIs(out[i].ret.val, ScalarsHeld)
            /\ IsInt(v0[i]) /\ FitsInt32(ScalarsHeld, comm_size) =>
                out[i].exc = "" /\ IntSumIs(out[i].ret.val, ScalarsHeld)
            /\ IsArray(v0[i]) =>
                /\ out[i].exc = ""
                /\ Len(out[i].ret.data) = Len(v0[i].data)
                /\ \A k \in 1..Len(v0[i].data) :
                      FloatSumIs(out[i].ret.data[k], ElementsHeld(k))
            /\ (IsFloat(v0[i]) \/ IsInt(v0[i]))
               /\ (\A j \in P : v0[j].val = FromInt(j)) =>
                out[i].ret.val = FromInt(Triangle)
            /\ IsArray(v0[i])
               /\ (\A j \in P : \A k \in 1..Len(v0[j].data) :
                      v0[j].data[k] = FromInt(j)) =>
                \A k \in 1..Len(v0[i].data) :
                    out[i].ret.data[k] = FromInt(Triangle)

(* three processes holding the ints 0, 1, 2 called allReduce(v, "SUM") and
   each got 3 *)
C2_Witness ==
    /\ fn = "allReduce" /\ op_arg = <<"S", "U", "M">> /\ comm_size = 3
    /\ \A i \in P : v0[i] = PyInt(i) /\ out[i].ret.val = FromInt(3)

-----------------------------------------------------------------------------
(* C3 as claimed: after allReduce(v, "avg") where process i holds i, every
   process obtains (N-1)/2 for a real scalar, (N-1)//2 for an integer
   scalar, and for a dense buffer the elementwise sum divided by N. *)
C3_AsClaimed ==
    AvgCalled =>
        \A i \in P :
            /\ IsFloat(v0[i]) /\ (\A j \in P : v0[j].val = FromInt(j)) =>
                out[i].exc = "" /\ out[i].ret.val = Norm(comm_size - 1, 2)
            /\ IsInt(v0[i]) /\ (\A j \in P : v0[j].val = FromInt(j)) =>
                /\ out[i].exc = ""
                /\ out[i].ret.val = FromInt((comm_size - 1) \div 2)
            /\ IsArray(v0[i]) =>
                /\ out[i].exc = ""
                /\ \A k \in 1..Len(v0[i].data) :
                      out[i].ret.data[k] =
                          RDivInt(ExactSum(ElementsHeld(k), comm_size), comm_size)

-----------------------------------------------------------------------------
(* the payloads bcast carries the root's value into: a scalar, a dense
   buffer, a distributed field vector, and a multi-vector made of
   distributed field vectors only *)
BcastCarries(o) ==
    IF HasNvec(o) THEN LeafTypes(o) \subseteq {"dolfin.Vector"}
    ELSE IsFloat(o) \/ IsInt(o) \/ IsArray(o) \/ IsVector(o)

(* C4 as claimed: after bcast(v, root = r) on a supported payload (a scalar,
   a dense buffer, a distributed field vector, a multi-vector of any of
   these), what each process holds as the result of the call equals what
   process r held before it, and what process r holds is unchanged. *)
C4_AsClaimed ==
    fn = "bcast" =>
        \A i \in P :
            Supported(v0[i]) /\ SerialOk(v0[i]) =>
                /\ out[i].exc = ""
                /\ Value(out[i].ret) = Value(v0[root_arg])
                /\ v[root_arg] = v0[root_arg]

(* C4, amended: as claimed for scalars, dense buffers, distributed field
   vectors and multi-vectors made of distributed field vectors; a scalar or
   dense buffer entry of a multi-vector keeps the value its own process
   held. *)
C4_Bcast ==
    fn = "bcast" =>
        \A i \in P :
            /\ BcastCarries(v0[i]) /\ SerialOk(v0[i]) =>
                /\ out[i].exc = ""
                /\ Value(out[i].ret) = Value(v0[root_arg])
                /\ v[root_arg] = v0[root_arg]
            /\ HasNvec(v0[i]) /\ Supported(v0[i]) /\ SerialOk(v0[i])
               /\ LeafTypes(v0[i]) \cap {"dolfin.Vector"} = {} =>
                out[i].exc = "" /\ out[i].ret = v0[i]

(* three processes holding different vectors called bcast(v, root = 2) and
   process 0 now holds what process 2 held *)
C4_Witness ==
    /\ fn = "bcast" /\ root_arg = 2 /\ comm_size = 3
    /\ IsVector(v0[0]) /\ v0[0].data # v0[2].data
    /\ out[0].exc = "" /\ v[0].data = v0[2].data

-----------------------------------------------------------------------------
(* C5: after allReduce(v, op), op sum or avg, on distributed field vectors
   of one shape, each process's local segment is the elementwise sum of the
   N segments (divided by N for avg), apply is called after the segment is
   written back and is the last thing the call does, and the call returns
   the vector it was given.  (With is_serial_check on, a vector whose own
   communicator is not serial stops the call at the assertion instead, the
   vector untouched.) *)
C5_VectorReduce ==
    SumCalled \/ AvgCalled =>
        \A i \in P : IsVector(v0[i]) =>
            IF SerialOk(v0[i])
            THEN /\ out[i].exc = ""
                 /\ Len(v[i].data) = Len(v0[i].data)
                 /\ \A k \in 1..Len(v0[i].data) :
                       v[i].data[k] =
                           IF SumCalled
                           THEN ExactSum(ElementsHeld(k), comm_size)
                           ELSE RDivInt(ExactSum(ElementsHeld(k), comm_size),
                                        comm_size)
                 /\ \E a, b \in 1..Len(out[i].log) :
                       /\ out[i].log[a] = "set_local"
                       /\ out[i].log[b] = "apply"
                       /\ a < b /\ b = Len(out[i].log)
                       /\ \A c \in 1..Len(out[i].log) :
                             out[i].log[c] = "set_local" => c = a
                 /\ out[i].same /\ out[i].ret = v[i]
            ELSE out[i].exc = "AssertionError" /\ v[i] = v0[i]

(* three processes holding vectors of two elements called
   allReduce(v, "Avg"); the segments were written and now differ from what
   process 0 held *)
C5_Witness ==
    /\ fn = "allReduce" /\ op_arg = <<"A", "v", "g">> /\ comm_size = 3
    /\ IsVector(v0[0]) /\ Len(v0[0].data) = 2
    /\ out[0].exc = "" /\ v[0] # v0[0]
    /\ v[0].data[1] = RDivInt(ExactSum(ElementsHeld(1), comm_size), comm_size)

-----------------------------------------------------------------------------
(* what allReduce of entry k alone, made by every process, yields on i *)
EntryAlone(i, k) == GridAllReduce(i, [j \in P |-> v0[j].ent[k]], op_arg)

(* C6 as claimed: after allReduce(mv, "sum") on a multi-vector, the caller's
   container holds at every index the value an allReduce(mv[i], "sum") of
   that entry alone yields, and the call returns the same container. *)
C6_AsClaimed ==
    SumCalled =>
        \A i \in P :
            HasNvec(v0[i]) /\ Supported(v0[i]) /\ SerialOk(v0[i]) =>
                /\ out[i].exc = ""
                /\ out[i].same /\ out[i].ret = v[i]
                /\ Len(v[i].ent) = Len(v0[i].ent)
                /\ \A k \in 1..Len(v0[i].ent) :
                      Value(v[i].ent[k]) = Value(EntryAlone(i, k).ret)

(* C6, amended: as claimed for a multi-vector made of dense buffers or
   distributed field vectors (nested multi-vectors of them included);
   a scalar entry keeps its value, the sum the inner call returns being
   dropped. *)
C6_MultiVectorSum ==
    SumCalled =>
        \A i \in P :
            HasNvec(v0[i]) /\ SerialOk(v0[i]) =>
                /\ LeafTypes(v0[i]) \subseteq {"numpy.ndarray", "dolfin.Vector"} =>
                    /\ out[i].exc = ""
                    /\ out[i].same /\ out[i].ret = v[i]
                    /\ Len(v[i].ent) = Len(v0[i].ent)
                    /\ \A k \in 1..Len(v0[i].ent) :
                          Value(v[i].ent[k]) = Value(EntryAlone(i, k).ret)
                /\ LeafTypes(v0[i]) \subseteq {"float", "int"} =>
                    out[i].exc = "" /\ out[i].same /\ v[i] = v0[i]

(* two processes holding multi-vectors of two dense buffers called
   allReduce(mv, "sum"); both entries of process 0's container changed *)
C6_Witness ==
    /\ fn = "allReduce" /\ op_arg = SUM /\ comm_size = 2
    /\ HasNvec(v0[0]) /\ Len(v0[0].ent) = 2
    /\ \A k \in 1..2 : IsArray(v0[0].ent[k]) /\ v[0].ent[k] # v0[0].ent[k]
    /\ out[0].exc = ""

-----------------------------------------------------------------------------
(* C7 as claimed: allReduce(v, op) with an op that is neither sum nor avg
   in lower case, on any supported payload, fails with the
   unsupported-operation error and leaves the caller's payload as it was. *)
C7_AsClaimed ==
    fn = "allReduce" /\ ~AnyCase(op_arg, SUM) /\ ~AnyCase(op_arg, AVG) =>
        \A i \in P :
            Supported(v0[i]) /\ SerialOk(v0[i]) =>
                /\ out[i].exc = "NotImplementedError"
                /\ out[i].msg.text = ErrMsg(op_arg).text
                /\ v[i] = v0[i]

-----------------------------------------------------------------------------
(* C8 as claimed: allReduce and bcast on a payload that is no scalar, dense
   buffer, distributed field vector or multi-vector fail with the
   unsupported-payload error, whose message names the payload's type, and
   touch the transport not at all. *)
C8_AsClaimed ==
    fn \in {"allReduce", "bcast"} =>
        \A i \in P :
            v0[i].type = "str" =>
                /\ out[i].exc = "NotImplementedError"
                /\ out[i].msg.type = v0[i].type
                /\ out[i].log = <<>>

-----------------------------------------------------------------------------
(* every instance holds the same mesh decomposition *)
ChkConsistent == chk.odd = -1 \/ chk.n_instances = 1

(* C9 as claimed: once every rank of the flat group is through
   checkFunctionSpaceConsistentPartitioning, each has the same boolean:
   true when every instance holds the same mesh decomposition, false when
   exactly one instance's differs. *)
C9_AsClaimed ==
    (\A r \in ChkRanks : chk_pc[r] = "end") =>
        \A r \in ChkRanks :
            chk_out[r] = IF ChkConsistent THEN "True" ELSE "False"

-----------------------------------------------------------------------------
(* C10 as claimed: on a group of one process, for every op and every
   supported payload, the Grid allReduce fails exactly when the Null
   allReduce fails, and where both succeed both return a value equal to
   what was passed in. *)
C10_AsClaimed ==
    fn = "allReduce" /\ comm_size = 1 =>
        \A i \in P :
            Supported(v0[i]) /\ SerialOk(v0[i]) =>
                LET null == NullAllReduce(v0[i], op_arg)
                IN /\ out[i].exc # "" <=> null.exc # ""
                   /\ out[i].exc = "" /\ null.exc = "" =>
                        /\ Value(out[i].ret) = Value(v0[i])
                        /\ Value(null.ret) = Value(v0[i])

=============================================================================
